---- MODULE Spec2Model ----
(***************************************************************************)
(* A model of the Viewport class (src/src/Viewport.ts, lines 1-189) and of *)
(* the render driver that follows it in the same file (lines 191-239).     *)
(*                                                                         *)
(* The canvas element and its 2d context are platform objects; they are    *)
(* modelled by what the calls the code makes on them do:                   *)
(*   - assigning canvas.width or canvas.height replaces the bitmap by a    *)
(*     transparent black one of the new size and resets the context state  *)
(*     (transform = identity, fillStyle = black);                          *)
(*   - fillRect and clearRect are subject to the current transform,        *)
(*     getImageData and putImageData are not;                              *)
(*   - the bitmap keeps premultiplied colours, so a pixel put with alpha 0 *)
(*     reads back as transparent black;                                    *)
(*   - a write past the end of ImageData.data is ignored.                  *)
(* Sizes and pixel ratios are positive integers throughout.                *)
(***************************************************************************)
EXTENDS Integers, Sequences, FiniteSets, TLC

(* Bounds of the model. *)
MaxDim == 2
WideDim == 10
MaxRatio == 2
MaxBuf == 2
MaxOps == 3

Widths == (1..MaxDim) \cup {WideDim}
Heights == 1..MaxDim
Ratios == 1..MaxRatio
Styles == {"white", "black"}
NaN == "NaN"
Null == "null"

VARIABLES
  canvas,     \* the canvas element: [width, height, style, supports2d]
  ctx,        \* its 2d context: [fillStyle, scale, bitmap]
  viewport,   \* "none" | "constructed" | "threw"
  pc,         \* position of render(): "idle" | "loop"
  nx, ny, id, index, i, j,   \* the locals of render()
  args,       \* history: the arguments the constructor ran with
  prev,       \* history: canvas and ctx before the last operation
  lastOp,     \* history: the last operation that completed or threw
  err,        \* history: the error the last operation threw, or "none"
  committed,  \* history: the last ImageData handed to the imageData setter
  events,     \* history: acquire / write / commit events of the current frame
  visits,     \* history: <<x, y, cursor>> of every pixel visit of the frame
  ops         \* history: the number of calls made on the viewport

vars == <<canvas, ctx, viewport, pc, nx, ny, id, index, i, j,
          args, prev, lastOp, err, committed, events, visits, ops>>

(* ---------------------------------------------------------------------- *)
(* Values                                                                   *)
(* ---------------------------------------------------------------------- *)

TransparentBlack == <<0, 0, 0, 0>>

\* A CSS colour as the RGBA pixel fillRect paints.
cssColor(fillStyle) ==
  CASE fillStyle = "white" -> <<255, 255, 255, 255>>
    [] fillStyle = "black" -> <<0, 0, 0, 255>>
    [] fillStyle = "red" -> <<255, 0, 0, 255>>
    [] OTHER -> TransparentBlack

\* The bitmap's premultiplied storage: a fully transparent pixel has no colour.
premultiply(p) == IF p[4] = 0 THEN TransparentBlack ELSE p

\* A bitmap of w x h pixels, row-major, all of one colour.
blankBitmap(w, h) == [p \in 0..(w * h - 1) |-> TransparentBlack]

\* The module's devicePixelRatio (lines 2-4): window.devicePixelRatio when it is
\* truthy, else 1. `win` is the window's value, 0 when it has none.
devicePixelRatio(win) == IF win # 0 THEN win ELSE 1

(* ---------------------------------------------------------------------- *)
(* Number <-> string                                                        *)
(* ---------------------------------------------------------------------- *)

Digits == <<"0", "1", "2", "3", "4", "5", "6", "7", "8", "9">>

digitValue(c) == IF \E d \in 1..10 : Digits[d] = c
                 THEN (CHOOSE d \in 1..10 : Digits[d] = c) - 1
                 ELSE -1

\* ToString of a non-negative integer, as a sequence of characters.
RECURSIVE numberToString(_)
numberToString(n) ==
  IF n < 10 THEN <<Digits[n + 1]>>
  ELSE numberToString(n \div 10) \o <<Digits[(n % 10) + 1]>>

\* width + "px"
px(n) == numberToString(n) \o <<"p", "x">>

RECURSIVE parseDigits(_, _, _, _)
parseDigits(s, k, radix, acc) ==
  IF k > Len(s) \/ digitValue(s[k]) < 0 \/ digitValue(s[k]) >= radix THEN acc
  ELSE parseDigits(s, k + 1, radix, acc * radix + digitValue(s[k]))

\* parseInt(s, radix): the value of the longest prefix of digits, NaN if there is
\* none. (The strings the code parses carry no sign and no leading blanks.)
parseInt(s, radix) ==
  IF Len(s) = 0 \/ digitValue(s[1]) < 0 \/ digitValue(s[1]) >= radix THEN NaN
  ELSE parseDigits(s, 1, radix, 0)

(* ---------------------------------------------------------------------- *)
(* The 2d context                                                           *)
(* ---------------------------------------------------------------------- *)

\* Device pixel (x, y) lies in the user-space rectangle (0, 0, w, h) under a
\* transform that scales by cx.scale.
covered(cx, x, y, w, h) == x < w * cx.scale /\ y < h * cx.scale

\* ctx.fillRect(0, 0, w, h): source-over painting of the current fillStyle.
fillRect(cx, cv, w, h) ==
  [cx EXCEPT !.bitmap =
     [p \in DOMAIN cx.bitmap |->
        IF covered(cx, p % cv.width, p \div cv.width, w, h)
           /\ cssColor(cx.fillStyle)[4] # 0
        THEN cssColor(cx.fillStyle)
        ELSE cx.bitmap[p]]]

\* ctx.clearRect(0, 0, w, h)
clearRect(cx, cv, w, h) ==
  [cx EXCEPT !.bitmap =
     [p \in DOMAIN cx.bitmap |->
        IF covered(cx, p % cv.width, p \div cv.width, w, h)
        THEN TransparentBlack
        ELSE cx.bitmap[p]]]

\* ctx.getImageData(sx, sy, sw, sh): a fresh copy; pixels outside the bitmap
\* are transparent black.
getImageData(cx, cv, sx, sy, sw, sh) ==
  [width |-> sw,
   height |-> sh,
   data |-> [k \in 0..(sw * sh * 4 - 1) |->
               LET q == k \div 4
                   x == sx + (q % sw)
                   y == sy + (q \div sw)
               IN IF x < cv.width /\ y < cv.height
                  THEN cx.bitmap[y * cv.width + x][(k % 4) + 1]
                  ELSE 0]]

\* Pixel (x, y) of an ImageData.
pixelOf(imageData, x, y) ==
  LET k == (y * imageData.width + x) * 4
  IN <<imageData.data[k], imageData.data[k + 1],
       imageData.data[k + 2], imageData.data[k + 3]>>

\* (mutant) putImageData that refuses a buffer of another size than the bitmap
putImageDataSameSizeOnly(cx, cv, imageData, dx, dy) ==
  IF imageData.width # cv.width \/ imageData.height # cv.height THEN cx
  ELSE [cx EXCEPT !.bitmap =
          [p \in DOMAIN cx.bitmap |->
             premultiply(pixelOf(imageData, p % cv.width, p \div cv.width))]]

\* ctx.putImageData(imageData, dx, dy): copies the data over the bitmap, clipped
\* to the bitmap; no size check, no compositing, no transform.
putImageData(cx, cv, imageData, dx, dy) ==
  [cx EXCEPT !.bitmap =
     [p \in DOMAIN cx.bitmap |->
        LET x == p % cv.width
            y == p \div cv.width
        IN IF x >= dx /\ x < dx + imageData.width
              /\ y >= dy /\ y < dy + imageData.height
           THEN premultiply(pixelOf(imageData, x - dx, y - dy))
           ELSE cx.bitmap[p]]]

(* ---------------------------------------------------------------------- *)
(* The canvas element                                                       *)
(* ---------------------------------------------------------------------- *)

\* The context state a canvas has after its bitmap was (re)created.
resetContext(cv) ==
  [fillStyle |-> "black", scale |-> 1, bitmap |-> blankBitmap(cv.width, cv.height)]

\* canvas.width = v
setCanvasWidth(this, v) ==
  LET cv == [this.canvas EXCEPT !.width = v]
  IN [canvas |-> cv, ctx |-> resetContext(cv)]

\* canvas.height = v
setCanvasHeight(this, v) ==
  LET cv == [this.canvas EXCEPT !.height = v]
  IN [canvas |-> cv, ctx |-> resetContext(cv)]

\* ctx.scale(sx, sx)
scale(this, sx) == [this EXCEPT !.ctx.scale = @ * sx]

(* ---------------------------------------------------------------------- *)
(* Viewport: `this` is [canvas, ctx]                                        *)
(* ---------------------------------------------------------------------- *)

\* get width(): parseInt(this.canvas.style.width || "", 10)
width(this) == parseInt(this.canvas.style.width, 10)

\* get height()
height(this) == parseInt(this.canvas.style.height, 10)

\* (mutant) setSize that styles the canvas with the backing-store size
setSizeStyledPhysical(this, w, h, pixelRatio) ==
  LET styled == [this EXCEPT !.canvas.style.width = px(w * pixelRatio),
                             !.canvas.style.height = px(h * pixelRatio)]
      sized == setCanvasHeight(setCanvasWidth(styled, w * pixelRatio),
                               h * pixelRatio)
  IN scale(sized, pixelRatio)

\* private setSize(width, height, pixelRatio)
setSize(this, w, h, pixelRatio) ==
  LET styled == [this EXCEPT !.canvas.style.width = px(w),
                             !.canvas.style.height = px(h)]
      sized == setCanvasHeight(setCanvasWidth(styled, w * pixelRatio),
                               h * pixelRatio)
  IN scale(sized, pixelRatio)

\* public fill(fillStyle)
fill(this, fillStyle) ==
  LET cx == [this.ctx EXCEPT !.fillStyle = fillStyle]
  IN [this EXCEPT !.ctx = fillRect(cx, this.canvas,
                                   this.canvas.width, this.canvas.height)]

\* public clear()
clear(this) ==
  [this EXCEPT !.ctx = clearRect(this.ctx, this.canvas,
                                 this.canvas.width, this.canvas.height)]

\* (mutant) imageData read with the logical size
imageDataLogical(this) ==
  getImageData(this.ctx, this.canvas, 0, 0, width(this), height(this))

\* get imageData()
imageData(this) ==
  getImageData(this.ctx, this.canvas, 0, 0, this.canvas.width, this.canvas.height)

\* set imageData(imageData)
setImageData(this, buffer) ==
  [this EXCEPT !.ctx = putImageData(this.ctx, this.canvas, buffer, 0, 0)]

NoCanvasError == "You must provide a valid Canvas to the Viewport"
NoContextError == "Could not get a valid 2d context for the canvas"

\* (mutant) constructor that fills before it sizes the canvas
constructorFillFirst(this, target, w, h, pixelRatio) ==
  IF target = Null
  THEN [threw |-> NoCanvasError, this |-> this]
  ELSE IF ~this.canvas.supports2d
  THEN [threw |-> NoContextError, this |-> this]
  ELSE [threw |-> "none",
        this |-> setSize(fill(this, "white"), w, h, pixelRatio)]

\* (mutant) constructor that sizes the canvas before it asks for the context
constructorSizeFirst(this, target, w, h, pixelRatio) ==
  IF target = Null
  THEN [threw |-> NoCanvasError, this |-> this]
  ELSE IF ~this.canvas.supports2d
  THEN [threw |-> NoContextError, this |-> setSize(this, w, h, pixelRatio)]
  ELSE [threw |-> "none",
        this |-> fill(setSize(this, w, h, pixelRatio), "white")]

\* constructor(canvas, width, height, pixelRatio): the error it throws, or
\* "none", and the canvas and context it leaves.
constructor(this, target, w, h, pixelRatio) ==
  IF target = Null
  THEN [threw |-> NoCanvasError, this |-> this]
  ELSE IF ~this.canvas.supports2d
  THEN [threw |-> NoContextError, this |-> this]
  ELSE [threw |-> "none",
        this |-> fill(setSize(this, w, h, pixelRatio), "white")]

(* ---------------------------------------------------------------------- *)
(* render(): the per-pixel step (lines 218-228)                             *)
(* ---------------------------------------------------------------------- *)

\* Math.trunc(255.99 * (num / den))
channel(num, den) == (25599 * num) \div (100 * den)

\* Math.trunc(255.99 * 0.2)
blue == (25599 * 2) \div 1000

\* data[k] = v on a Uint8ClampedArray: ignored when k is out of range.
store(data, k, v) == IF k \in DOMAIN data THEN [data EXCEPT ![k] = v] ELSE data

\* The three channel writes of one pixel visit.
writePixel(buffer, cursor, x, y, w, h) ==
  [buffer EXCEPT !.data =
     store(store(store(@, cursor, channel(x, w)),
                 cursor + 1, channel(y, h)),
           cursor + 2, blue)]

\* An ImageData of one colour, as a caller of the class can build one.
solidImageData(w, h, colour) ==
  [width |-> w, height |-> h,
   data |-> [k \in 0..(w * h * 4 - 1) |-> colour[(k % 4) + 1]]]

NoImageData == [width |-> 0, height |-> 0, data |-> <<>>]

(* ---------------------------------------------------------------------- *)
(* State machine                                                            *)
(* ---------------------------------------------------------------------- *)

self == [canvas |-> canvas, ctx |-> ctx]

Init ==
  /\ \E ok \in BOOLEAN :
       \* the host page's canvas element, before the program touches it
       LET cv == [width |-> 2, height |-> 1,
                  style |-> [width |-> <<>>, height |-> <<>>],
                  supports2d |-> ok]
       IN /\ canvas = cv
          /\ ctx = resetContext(cv)
          /\ prev = [canvas |-> cv, ctx |-> resetContext(cv)]
  /\ viewport = "none"
  /\ pc = "idle"
  /\ nx = 0 /\ ny = 0 /\ id = NoImageData /\ index = 0 /\ i = 0 /\ j = 0
  /\ args = [target |-> "none", width |-> 0, height |-> 0, pixelRatio |-> 0]
  /\ lastOp = "none"
  /\ err = "none"
  /\ committed = NoImageData
  /\ events = <<>>
  /\ visits = <<>>
  /\ ops = 0

renderLocals == <<pc, nx, ny, id, index, i, j, events, visits>>

\* Viewport.create(canvas, width, height, pixelRatio = devicePixelRatio);
\* `rest` is <<>> when the caller leaves pixelRatio out, `win` is the window's
\* devicePixelRatio.
create(target, w, h, rest, win) ==
  LET pixelRatio == IF rest = <<>> THEN devicePixelRatio(win) ELSE rest[1]
      made == constructor(self, target, w, h, pixelRatio)
  IN /\ viewport = "none"
     /\ canvas' = made.this.canvas
     /\ ctx' = made.this.ctx
     /\ viewport' = IF made.threw = "none" THEN "constructed" ELSE "threw"
     /\ err' = made.threw
     /\ args' = [target |-> target, width |-> w, height |-> h,
                 pixelRatio |-> pixelRatio]
     /\ prev' = self
     /\ lastOp' = "create"
     /\ UNCHANGED <<committed, renderLocals, ops>>

Idle == viewport = "constructed" /\ pc = "idle" /\ ops < MaxOps

\* viewport.fill(fillStyle)
Fill(fillStyle) ==
  /\ Idle
  /\ ctx' = fill(self, fillStyle).ctx
  /\ prev' = self
  /\ lastOp' = "fill"
  /\ err' = "none"
  /\ ops' = ops + 1
  /\ UNCHANGED <<canvas, viewport, args, committed, renderLocals>>

\* viewport.clear()
Clear ==
  /\ Idle
  /\ ctx' = clear(self).ctx
  /\ prev' = self
  /\ lastOp' = "clear"
  /\ err' = "none"
  /\ ops' = ops + 1
  /\ UNCHANGED <<canvas, viewport, args, committed, renderLocals>>

\* viewport.imageData = buffer, by a caller other than render()
CommitPixelBuffer(buffer) ==
  /\ Idle
  /\ ctx' = setImageData(self, buffer).ctx
  /\ committed' = buffer
  /\ prev' = self
  /\ lastOp' = "commit"
  /\ err' = "none"
  /\ ops' = ops + 1
  /\ UNCHANGED <<canvas, viewport, args, renderLocals>>

\* render(), lines 211-214 and the loop initialisers
renderBegin ==
  /\ Idle
  /\ nx' = width(self)
  /\ ny' = height(self)
  /\ id' = imageData(self)
  /\ index' = 0
  /\ j' = ny' - 1
  /\ i' = 0
  /\ pc' = "loop"
  /\ events' = <<"acquire">>
  /\ visits' = <<>>
  /\ prev' = self
  /\ ops' = ops + 1
  /\ UNCHANGED <<canvas, ctx, viewport, args, lastOp, err, committed>>

\* (mutant) a pixel step that pushes the buffer to the canvas after each pixel
renderPixelCommitting ==
  /\ pc = "loop"
  /\ j >= 0
  /\ i < nx
  /\ id' = writePixel(id, index, i, j, nx, ny)
  /\ ctx' = setImageData(self, id').ctx
  /\ index' = index + 4
  /\ IF i + 1 < nx
     THEN i' = i + 1 /\ j' = j
     ELSE i' = 0 /\ j' = j - 1
  /\ events' = events \o <<"write", "commit">>
  /\ visits' = Append(visits, <<i, j, index>>)
  /\ UNCHANGED <<canvas, viewport, pc, nx, ny,
                 args, prev, lastOp, err, committed, ops>>

\* render(), one iteration of the inner loop (lines 217-229) and the loop
\* headers' updates
renderPixel ==
  /\ pc = "loop"
  /\ j >= 0
  /\ i < nx
  /\ id' = writePixel(id, index, i, j, nx, ny)
  /\ index' = index + 4
  /\ IF i + 1 < nx
     THEN i' = i + 1 /\ j' = j
     ELSE i' = 0 /\ j' = j - 1
  /\ events' = Append(events, "write")
  /\ visits' = Append(visits, <<i, j, index>>)
  /\ UNCHANGED <<canvas, ctx, viewport, pc, nx, ny,
                 args, prev, lastOp, err, committed, ops>>

\* render(), line 232
renderCommit ==
  /\ pc = "loop"
  /\ j < 0
  /\ ctx' = setImageData(self, id).ctx
  /\ committed' = id
  /\ events' = Append(events, "commit")
  /\ pc' = "idle"
  /\ lastOp' = "render"
  /\ err' = "none"
  \* the locals go out of scope
  /\ nx' = 0 /\ ny' = 0 /\ id' = NoImageData /\ index' = 0 /\ i' = 0 /\ j' = 0
  /\ UNCHANGED <<canvas, viewport, args, prev, visits, ops>>

\* The buffers a caller commits: opaque ones of every small size, and a fully
\* transparent one.
Buffers ==
  {solidImageData(bw, bh, cssColor("red")) : bw \in 1..MaxBuf, bh \in 1..MaxBuf}
    \cup {solidImageData(MaxBuf, MaxBuf, TransparentBlack)}

Next ==
  \/ \E target \in {Null, "canvas"}, w \in Widths, h \in Heights,
        rest \in {<<>>} \cup {<<r>> : r \in Ratios}, win \in 0..MaxRatio :
       create(target, w, h, rest, win)
  \/ \E fillStyle \in Styles : Fill(fillStyle)
  \/ Clear
  \/ \E buffer \in Buffers : CommitPixelBuffer(buffer)
  \/ renderBegin
  \/ renderPixel
  \/ renderCommit

Spec == Init /\ [][Next]_vars

(* ---------------------------------------------------------------------- *)
(* Properties                                                               *)
(* ---------------------------------------------------------------------- *)

\* render() has returned and nothing was called since.
RenderDone == lastOp = "render" /\ pc = "idle"

\* The pixels (indices into an ImageData) the frame's visits wrote.
VisitedPixels == {visits[n][3] \div 4 : n \in 1..Len(visits)}

PixelsOf(buffer) == 0..(buffer.width * buffer.height - 1)

Mismatch(buffer) == buffer.width # canvas.width \/ buffer.height # canvas.height

\* C1: one render pass visits exactly (width*r) * (height*r) pixels, and every
\* pixel of the acquired buffer is written.
C1_OncePerBackingStorePixel ==
  RenderDone =>
    /\ Len(visits) = canvas.width * canvas.height
    /\ VisitedPixels = PixelsOf(committed)

\* C2 (as claimed): a commit of a buffer whose size differs from the backing
\* store's fails with DimensionMismatchError and leaves the pixels as they were.
C2_MismatchFails ==
  (lastOp = "commit" /\ Mismatch(committed)) =>
    /\ err = "DimensionMismatchError"
    /\ ctx.bitmap = prev.ctx.bitmap

\* C2 (amended): a commit of a buffer whose size differs from the backing
\* store's does not fail; the buffer is drawn at the origin, clipped to the
\* store: a pixel inside the buffer's rectangle takes the buffer's alpha, and
\* its colour when opaque, and a pixel outside it keeps its value.
C2_MismatchDrawsClipped ==
  (lastOp = "commit" /\ Mismatch(committed)) =>
    /\ err = "none"
    /\ \A p \in DOMAIN ctx.bitmap :
         LET x == p % canvas.width
             y == p \div canvas.width
         IN IF x < committed.width /\ y < committed.height
            THEN /\ ctx.bitmap[p][4] = pixelOf(committed, x, y)[4]
                 /\ pixelOf(committed, x, y)[4] = 255
                      => ctx.bitmap[p] = pixelOf(committed, x, y)
            ELSE ctx.bitmap[p] = prev.ctx.bitmap[p]

\* A mismatched commit that changed some pixels and left others alone.
C2_Witness ==
  /\ lastOp = "commit"
  /\ Mismatch(committed)
  /\ ctx.bitmap # prev.ctx.bitmap
  /\ \E p \in DOMAIN ctx.bitmap : p % canvas.width >= committed.width

\* C3: width and height are the constructor's width and height, whatever the
\* pixel ratio, after any calls of fill, clear, the imageData accessors and
\* render.
C3_LogicalSize ==
  viewport = "constructed" =>
    /\ width(self) = args.width
    /\ height(self) = args.height

\* A scaled, two-digit-wide viewport after a render and other calls.
C3_Witness ==
  /\ viewport = "constructed"
  /\ args.pixelRatio > 1
  /\ args.width >= 10
  /\ ops >= 2
  /\ RenderDone

AcquiredAfterCreate == pc = "loop" /\ lastOp = "create" /\ visits = <<>>

C8_OpaqueAfterRender ==
  RenderDone =>
    \A q \in PixelsOf(committed) :
      pixelOf(committed, q % committed.width, q \div committed.width)[4] = 255

\* C9: the n-th visit's cursor is 4 * (n - 1), lies inside the acquired buffer,
\* equals the row-major index ((ny-1-y) * W + x) * 4 for the buffer's width W,
\* and no cursor value occurs twice.
C9_CursorIsRowMajorIndex ==
  pc = "loop" =>
    /\ \A n \in 1..Len(visits) :
         LET x == visits[n][1]
             y == visits[n][2]
             cursor == visits[n][3]
         IN /\ cursor = 4 * (n - 1)
            /\ cursor + 3 \in DOMAIN id.data
            /\ cursor = ((ny - 1 - y) * id.width + x) * 4
    /\ \A m, n \in 1..Len(visits) : visits[m][3] = visits[n][3] => m = n

\* C10: a frame is one acquire, then pixel writes, then one commit, and the
\* canvas keeps its pixels from the acquire until the commit.
C10_AcquireOnceCommitOnce ==
  /\ pc = "loop" =>
       /\ events = <<"acquire">> \o [n \in 1..Len(visits) |-> "write"]
       /\ ctx = prev.ctx
  /\ RenderDone =>
       events = <<"acquire">> \o [n \in 1..Len(visits) |-> "write"]
                  \o <<"commit">>

\* All pixels written, nothing committed yet: the buffer differs from the canvas.
C10_Witness ==
  /\ pc = "loop"
  /\ j < 0
  /\ Len(visits) >= 2
  /\ id # imageData(self)

====
